---------------------------- MODULE Spec2Model ----------------------------
(***************************************************************************)
(* pychat playground: a model of playground/asyncio-readkey.py (a curses   *)
(* UI with a clock pipeline, a key poller and a debounced reset timer run  *)
(* as asyncio tasks) and of playground/asyncio-example.py (as_completed).  *)
(*                                                                         *)
(* Time is digital: one tick of `now` is one second.  A coroutine runs     *)
(* atomically from one suspension point (await that really suspends) to    *)
(* the next, as it does on the single-threaded asyncio event loop.         *)
(*                                                                         *)
(* The scheduler is asyncio's loop: the scheduled wakeups run first in,   *)
(* first out, and time passes only while the loop is idle or blocked in    *)
(* getch.  A sleep shorter than a tick crosses zero or one tick.           *)
(***************************************************************************)
EXTENDS Integers, Sequences, FiniteSets, TLC

\* ---------------------------------------------------------------- bounds
MaxTime == 3        \* seconds of clock time explored
MaxKeys == 2        \* non-quit keys the user presses in one run
MaxFillTime == 101  \* seconds explored by the back-pressure specification
MaxEmpty == 6       \* polls of read_key that find no key before the key comes
MaxDur == 5         \* the example's tasks sleep 2, 4, .. 2 * MaxDur twentieths
ShortTimeout == 3   \* a timeout that falls between two sleep times

\* ------------------------------------------------------ program constants
TIMER_Y_COR == 1
KEYCODE_Y_COR == 5
ERR == -1             \* curses.ERR: getch found no key
KEY_QUIT == 27
QUEUE_MAXSIZE == 100  \* asyncio.Queue(maxsize=100)
TICK_PERIOD == 1      \* asyncio.sleep(1) in timer_generator
COUNTDOWN == 2        \* clear_key(stdscr, countdown_seconds=2)

\* The key codes getch may deliver: the quit key and two others.
Keys == {KEY_QUIT, 113, 97}

\* asyncio-example.py.  Its times are counted in twentieths of a second.
N_TASKS == 5                       \* range(5)
TIMEOUT == 10 * 20                 \* as_completed(tasks, timeout=10)
Tasks == 0..(N_TASKS - 1)
NONE == -1                         \* the None that _on_timeout puts

\* ------------------------------------------------------------------ tasks
MAIN == <<"main", 0>>    \* asyncio.run(main_wrapper()): main_wrapper, main, echo_key, read_key
GEN == <<"gen", 0>>      \* timer_generator_task
ECHO == <<"echo", 0>>    \* timer_echo_task
Clear(n) == <<"clear", n>>   \* the n-th clear_key task created by echo_key

TaskIds == {MAIN, GEN, ECHO} \cup {Clear(n) : n \in 1..MaxKeys}

VARIABLES
    now,        \* the clock, in seconds
    status,     \* task -> "none" | "ready" | "sleeping" | "waiting" | "done" | "cancelled" | "faulted"
    pc,         \* task -> the suspension point the task is at
    rem,        \* task -> seconds left of the sleep it is in
    cancelReq,  \* task -> cancel() was called and CancelledError is not yet delivered, or was
    ready,      \* the loop's queue of scheduled wakeups (loop._ready)
    queue,      \* timer_queue: the ticks enqueued and not yet taken
    unfinished, \* timer_queue._unfinished_tasks
    heldTick,   \* the tick timer_generator holds while it is suspended in put
    produced,   \* history: the ticks put into the queue, in order
    dropped,    \* history: the ticks timer_generator made and never enqueued
    rendered,   \* history: the time strings timer_echo rendered, in order
    screen,     \* row -> what the row shows
    clearTask,  \* echo_key's clear_key_task: 0 is None, n is Clear(n)
    keyTime,    \* n -> the time the n-th key was handled (its timer armed)
    fires,      \* n -> how often Clear(n) wrote its message
    fireTime,   \* n -> the time Clear(n) wrote its message
    sinkLog,    \* history: the set-up and tear-down calls made on the terminal
    atShutdown, \* the tasks not yet finished when main called curses_shutdown
    atEchoCancel, \* what main saw when it called timer_echo_task.cancel()
    loopState,  \* "running" | "closing" (asyncio.run cancels what is left) | "closed"
    quitTime,   \* the time the quit key was handled, -1 before
    joined,     \* "no" | "waited" (join suspended main) | "at once" (join returned without suspending)
    made,       \* history: the ticks timer_generator took from the clock, in order
    putWaits,   \* history: how often timer_generator was suspended in put
    events,     \* history: <<function, operation, argument>>: the writes to the
                \* display ("print" a row, "clear" the screen), the timers armed
                \* ("arm"), the quit key read ("quit") and curses_shutdown
    lastKey,    \* the key the last call of read_key returned, ERR before
    owed,       \* the tasks that were ready when echo_key last went back to
                \* read_key after a key and have not run since
    \* asyncio-example.py
    wdur,       \* task -> the time it sleeps (the value of random.uniform)
    wtimeout,   \* the timeout given to as_completed
    wnow,       \* the clock of the example
    wstate,     \* task -> "new" | "sleeping" | "done"
    wtodo,      \* as_completed's todo: the tasks not yet completed
    wdone,      \* as_completed's done queue: completed tasks, NONE for a timeout
    wtimer,     \* whether the timeout handle is scheduled
    wleft,      \* how many coroutines the for loop has still to take
    wyield,     \* history: the results main printed, in order
    wpc,        \* main: "start" | "waiting" (in done.get) | "finished" | "timeout"
    \* one call of read_key, on its own
    rkEmpty,    \* how many polls of the input find no key before the key is there
    rkKey,      \* the key the input then returns
    rkPc,       \* "call" | "sleeping" (in asyncio.sleep(0.01)) | "returned"
    rkPolls,    \* history: how often getch was called
    rkSleeps,   \* history: how often the call suspended in asyncio.sleep
    rkResult    \* the value returned, ERR before

rvars == <<now, status, pc, rem, cancelReq, ready, queue, unfinished, heldTick,
          produced, dropped, rendered, screen, clearTask, keyTime, fires,
          fireTime, sinkLog, atShutdown, atEchoCancel, loopState, quitTime,
          joined, made, putWaits, events, lastKey, owed>>

wvars == <<wdur, wtimeout, wnow, wstate, wtodo, wdone, wtimer, wleft, wyield, wpc>>

kvars == <<rkEmpty, rkKey, rkPc, rkPolls, rkSleeps, rkResult>>

vars == <<rvars, wvars, kvars>>

\* ---------------------------------------------------------------- helpers
RemoveAt(s, i) == SubSeq(s, 1, i - 1) \o SubSeq(s, i + 1, Len(s))

Finished(st) == st \in {"done", "cancelled", "faulted"}

\* now.strftime("%H:%M:%S"): hours, minutes and seconds of the day; the date is dropped.
strftime(t) == <<(t \div 3600) % 24, (t \div 60) % 60, t % 60>>

RECURSIVE MapStrftime(_)
MapStrftime(s) == IF s = <<>> THEN <<>> ELSE <<strftime(Head(s))>> \o MapStrftime(Tail(s))

\* The scheduler's part of the state, passed through the calls of one step.
Sched == [status |-> status, cancelReq |-> cancelReq, ready |-> ready]

\* Task.cancel(): no effect on a finished task; a task whose wakeup is already
\* scheduled gets _must_cancel; a suspended task has the future it waits on
\* cancelled (its timer with it), which schedules its wakeup.  Either way the
\* task receives CancelledError at its suspension point when it next runs.
CancelTaskIgnored(S, t) == S

CancelTask(S, t) ==
    IF S.status[t] = "none" \/ Finished(S.status[t]) THEN S
    ELSE IF S.status[t] = "ready" THEN [S EXCEPT !.cancelReq[t] = TRUE]
    ELSE [S EXCEPT !.status[t] = "ready", !.cancelReq[t] = TRUE,
                   !.ready = Append(@, t)]

\* A future's result is set: the task waiting on it has its wakeup scheduled.
WakeLost(S, t) == S

Wake(S, t) ==
    IF S.status[t] = "waiting"
    THEN [S EXCEPT !.status[t] = "ready", !.ready = Append(@, t)]
    ELSE S

\* asyncio.create_task: the new task's first step is scheduled.
CreateTask(S, t) == [S EXCEPT !.status[t] = "ready", !.ready = Append(@, t)]

\* Mutant of CancelPendingClear: the pending timer is left running.
CancelPendingClearSkipped(S) == S

\* echo_key: `if clear_key_task is not None and not clear_key_task.done():
\* clear_key_task.cancel()`.
CancelPendingClear(S) ==
    IF clearTask # 0 /\ ~Finished(S.status[Clear(clearTask)])
    THEN CancelTask(S, Clear(clearTask)) ELSE S

\* Mutant of GetAll: each tick is taken from the right end (a LifoQueue).
RECURSIVE GetAllLifo(_)
GetAllLifo(q) ==
    IF q = <<>> THEN <<>> ELSE <<q[Len(q)]>> \o GetAllLifo(SubSeq(q, 1, Len(q) - 1))

\* Queue.get() called until the queue is empty: the ticks in the order they
\* are taken, each from the left end (a deque's popleft).
RECURSIVE GetAll(_)
GetAll(q) == IF q = <<>> THEN <<>> ELSE <<Head(q)>> \o GetAll(Tail(q))

\* Mutant of QueueFull: a queue made without maxsize is never full.
QueueNeverFull(q) == FALSE

\* Queue.full(): maxsize items are queued.
QueueFull(q) == Len(q) >= QUEUE_MAXSIZE

\* Mutant of JoinMustWait: the join is not awaited.
JoinNeverWaits(u) == FALSE

\* Queue.join(): `if self._unfinished_tasks > 0: await self._finished.wait()`.
JoinMustWait(u) == u > 0

\* Mutant of TaskDone: the consumer does not acknowledge, _finished is never set.
TaskDoneNeverSet(S, left) == S

\* Queue.task_done() brought the unfinished count to `left`: at zero the event
\* _finished is set, which wakes main if it is suspended in join.
TaskDone(S, left) ==
    IF left = 0 /\ pc[MAIN] = "join" THEN Wake(S, MAIN) ELSE S

\* d seconds pass: every running sleep gets d seconds closer to its end (below
\* zero: its timer is overdue, the loop has not yet noticed).
Elapse(st, r, d) == [t \in TaskIds |-> IF st[t] = "sleeping" THEN r[t] - d ELSE 0]

\* asyncio.sleep(0.01) in read_key and the wait of getch under halfdelay(1)
\* (at most 0.1 s) are shorter than a tick: they cross zero or one tick.
SubTick == {0, 1}

\* ------------------------------------------------------------------- Init
InitReadkey ==
    /\ now = 0
    /\ status = [t \in TaskIds |-> IF t = MAIN THEN "ready" ELSE "none"]
    /\ pc = [t \in TaskIds |-> "start"]
    /\ rem = [t \in TaskIds |-> 0]
    /\ cancelReq = [t \in TaskIds |-> FALSE]
    /\ ready = <<MAIN>>
    /\ queue = <<>>
    /\ unfinished = 0
    /\ heldTick = -1
    /\ produced = <<>>
    /\ dropped = <<>>
    /\ rendered = <<>>
    /\ screen = [y \in {TIMER_Y_COR, KEYCODE_Y_COR} |-> <<>>]
    /\ clearTask = 0
    /\ keyTime = [n \in 1..MaxKeys |-> -1]
    /\ fires = [n \in 1..MaxKeys |-> 0]
    /\ fireTime = [n \in 1..MaxKeys |-> -1]
    /\ sinkLog = <<>>
    /\ atShutdown = {}
    /\ atEchoCancel = <<>>
    /\ loopState = "running"
    /\ quitTime = -1
    /\ joined = "no"
    /\ made = <<>>
    /\ putWaits = 0
    /\ events = <<>>
    /\ lastKey = ERR
    /\ owed = {}

\* asyncio-example.py is a program of its own: while asyncio-readkey.py runs,
\* its state is idle.
WaiterIdle ==
    /\ wdur = [n \in Tasks |-> 0]
    /\ wtimeout = 0
    /\ wnow = 0
    /\ wstate = [n \in Tasks |-> "new"]
    /\ wtodo = {}
    /\ wdone = <<>>
    /\ wtimer = FALSE
    /\ wleft = 0
    /\ wyield = <<>>
    /\ wpc = "idle"

\* No call of read_key is followed on its own.
ReadKeyIdle ==
    /\ rkEmpty = 0
    /\ rkKey = ERR
    /\ rkPc = "idle"
    /\ rkPolls = 0
    /\ rkSleeps = 0
    /\ rkResult = ERR

Init == InitReadkey /\ WaiterIdle /\ ReadKeyIdle


\* ------------------------------------------------------------ the display
curses_print_lost(scr, y, line) == scr

\* curses_print(stdscr, y, x, line): the row is cleared and shows `line`.
curses_print(scr, y, line) == [scr EXCEPT ![y] = line]

\* stdscr.clear(): every row is blank.
ClearScreen(scr) == [y \in DOMAIN scr |-> <<>>]

NoKeyMessage == <<"No key pressing detected in last {} seconds", COUNTDOWN>>

\* --------------------------------------------------- the coordinator, main
MainPollsAtOnce(S) ==
    /\ status' = [S.status EXCEPT ![MAIN] = "ready"]
    /\ cancelReq' = S.cancelReq
    /\ ready' = <<MAIN>> \o S.ready
    /\ pc' = [pc EXCEPT ![MAIN] = "poll"]

\* read_key: await asyncio.sleep(0.01), then poll.
MainSleepsInReadKey(S) ==
    /\ status' = [S.status EXCEPT ![MAIN] = "sleeping"]
    /\ cancelReq' = S.cancelReq
    /\ ready' = S.ready
    /\ pc' = [pc EXCEPT ![MAIN] = "poll"]

\* The end of main: the consumer is cancelled, the terminal is shut down and
\* the coroutine returns.
MainFinish(S) ==
    LET S1 == CancelTask(S, ECHO) IN
    /\ status' = [S1.status EXCEPT ![MAIN] = "done"]
    /\ cancelReq' = S1.cancelReq
    /\ ready' = S1.ready
    /\ pc' = [pc EXCEPT ![MAIN] = "exit"]
    /\ atEchoCancel' = <<[produced |-> produced, rendered |-> rendered,
                          queue |-> queue, unfinished |-> unfinished,
                          genCancelled |-> S.cancelReq[GEN]]>>
    /\ sinkLog' = Append(sinkLog, "curses_shutdown")
    /\ atShutdown' = {t \in TaskIds \ {MAIN} :
                         S1.status[t] # "none" /\ ~Finished(S1.status[t])}

\* The first step of the main task: main_wrapper, curses.wrapper(main) (which
\* sets the terminal up, calls main -- a coroutine function, so the call only
\* makes the coroutine object -- and restores the terminal in its finally),
\* then, awaited, the body of main up to the first sleep of read_key.
MainStart(i) ==
    /\ i \in DOMAIN ready /\ ready[i] = MAIN /\ pc[MAIN] = "start" /\ ~cancelReq[MAIN]
    /\ sinkLog' = sinkLog \o <<"wrapper_setup", "wrapper_endwin", "curses_init">>
    /\ screen' = curses_print(screen, KEYCODE_Y_COR, <<"No key pressing detected">>)
    /\ MainSleepsInReadKey(
           CreateTask(CreateTask([Sched EXCEPT !.ready = RemoveAt(ready, i)], GEN), ECHO))
    /\ \E d \in SubTick : rem' = [rem EXCEPT ![MAIN] = d]
    /\ events' = Append(events, <<"main", "print", KEYCODE_Y_COR>>)
    /\ UNCHANGED <<now, queue, unfinished, heldTick, produced, dropped, rendered,
                   clearTask, keyTime, fires, fireTime, atShutdown, atEchoCancel,
                   loopState,
                   quitTime, joined, made, putWaits, lastKey, owed, wvars, kvars>>

\* read_key woken from its sleep: getch waits b ticks and finds no key.
MainPollNone(i, b) ==
    /\ i \in DOMAIN ready /\ ready[i] = MAIN /\ pc[MAIN] = "poll" /\ ~cancelReq[MAIN]
    /\ b = 0 \/ now < MaxTime
    /\ now' = now + b
    /\ MainSleepsInReadKey([Sched EXCEPT !.ready = RemoveAt(ready, i)])
    /\ \E d \in SubTick : rem' = [Elapse(status, rem, b) EXCEPT ![MAIN] = d]
    /\ UNCHANGED <<queue, unfinished, heldTick, produced, dropped, rendered, screen,
                   clearTask, keyTime, fires, fireTime, sinkLog, atShutdown,
                   atEchoCancel, loopState,
                   quitTime, joined, made, putWaits, events, lastKey, owed, wvars, kvars>>

\* echo_key, a key other than the quit key: the key is shown, the pending
\* reset timer is cancelled and a new one is created.
MainKey(i, k, b) ==
    /\ i \in DOMAIN ready /\ ready[i] = MAIN /\ pc[MAIN] = "poll" /\ ~cancelReq[MAIN]
    /\ k # ERR /\ k # KEY_QUIT
    /\ clearTask < MaxKeys
    /\ b = 0 \/ now < MaxTime
    /\ now' = now + b
    /\ screen' = curses_print(screen, KEYCODE_Y_COR, <<"Last key pressed: {}", k>>)
    /\ LET S0 == [Sched EXCEPT !.ready = RemoveAt(ready, i)]
           S1 == CancelPendingClear(S0)
       IN  MainSleepsInReadKey(CreateTask(S1, Clear(clearTask + 1)))
    /\ clearTask' = clearTask + 1
    /\ keyTime' = [keyTime EXCEPT ![clearTask + 1] = now + b]
    /\ \E d \in SubTick : rem' = [Elapse(status, rem, b) EXCEPT ![MAIN] = d]
    /\ events' = events \o <<<<"echo_key", "print", KEYCODE_Y_COR>>,
                           <<"echo_key", "arm", clearTask + 1>>>>
    /\ lastKey' = k
    /\ owed' = {ready'[j] : j \in DOMAIN ready'}
    /\ UNCHANGED <<queue, unfinished, heldTick, produced, dropped, rendered,
                   fires, fireTime, sinkLog, atShutdown, atEchoCancel, loopState,
                   quitTime, joined, made, putWaits, wvars, kvars>>

\* echo_key, the quit key: the loop ends, the pending reset timer is
\* cancelled, the screen is cleared; back in main the producer is cancelled
\* and the queue is joined, which suspends unless nothing is unacknowledged.
MainQuit(i, b) ==
    /\ i \in DOMAIN ready /\ ready[i] = MAIN /\ pc[MAIN] = "poll" /\ ~cancelReq[MAIN]
    /\ b = 0 \/ now < MaxTime
    /\ now' = now + b
    /\ rem' = Elapse(status, rem, b)
    /\ screen' = ClearScreen(screen)
    /\ LET S0 == [Sched EXCEPT !.ready = RemoveAt(ready, i)]
           S1 == CancelPendingClear(S0)
           S2 == CancelTask(S1, GEN)
       IN  IF JoinMustWait(unfinished)
           THEN /\ status' = [S2.status EXCEPT ![MAIN] = "waiting"]
                /\ cancelReq' = S2.cancelReq
                /\ ready' = S2.ready
                /\ pc' = [pc EXCEPT ![MAIN] = "join"]
                /\ joined' = "waited"
                /\ UNCHANGED <<sinkLog, atShutdown, atEchoCancel>>
           ELSE MainFinish(S2) /\ joined' = "at once"
    /\ quitTime' = now + b
    /\ events' = events \o <<<<"echo_key", "quit", 0>>, <<"echo_key", "clear", 0>>>>
                  \o (IF JoinMustWait(unfinished) THEN <<>>
                      ELSE <<<<"main", "shutdown", 0>>>>)
    /\ lastKey' = KEY_QUIT
    /\ UNCHANGED <<queue, unfinished, heldTick, produced, dropped, rendered,
                   clearTask, keyTime, fires, fireTime, loopState,
                   made, putWaits, owed, wvars, kvars>>

\* main woken from timer_queue.join().
MainJoined(i) ==
    /\ i \in DOMAIN ready /\ ready[i] = MAIN /\ pc[MAIN] = "join" /\ ~cancelReq[MAIN]
    /\ MainFinish([Sched EXCEPT !.ready = RemoveAt(ready, i)])
    /\ events' = Append(events, <<"main", "shutdown", 0>>)
    /\ UNCHANGED <<now, rem, queue, unfinished, heldTick, produced, dropped,
                   rendered, screen, clearTask, keyTime, fires, fireTime, loopState,
                   quitTime, joined, made, putWaits, lastKey, owed, wvars, kvars>>

\* A task resumed with cancellation requested: CancelledError is raised at its
\* suspension point; none of the coroutines catches it, so the task ends.  A
\* producer suspended in put gives up the tick it held.
TaskCancelled(i, t) ==
    /\ i \in DOMAIN ready /\ ready[i] = t /\ t # MAIN /\ cancelReq[t]
    /\ status' = [status EXCEPT ![t] = "cancelled"]
    /\ ready' = RemoveAt(ready, i)
    /\ dropped' = IF t = GEN /\ pc[GEN] = "put" THEN Append(dropped, heldTick) ELSE dropped
    /\ owed' = owed \ {t}
    /\ UNCHANGED <<now, pc, rem, cancelReq, queue, unfinished, heldTick, produced,
                   rendered, screen, clearTask, keyTime, fires, fireTime, sinkLog,
                   atShutdown, atEchoCancel, loopState,
                   quitTime, joined, made, putWaits, events, lastKey, wvars, kvars>>

\* ------------------------------------------------------- the clock source
\* timer_generator resumed at its start, after its sleep, or in put after a
\* slot was freed.  Queue.put: while the queue is full, wait for a getter;
\* then put_nowait (enqueue, count the item unfinished, wake the getter) and
\* sleep one period.
GenRun(i) ==
    /\ i \in DOMAIN ready /\ ready[i] = GEN /\ ~cancelReq[GEN]
    /\ LET tick == IF pc[GEN] = "put" THEN heldTick ELSE now
           S0 == [Sched EXCEPT !.ready = RemoveAt(ready, i)]
       IN  IF QueueFull(queue)
           THEN /\ status' = [S0.status EXCEPT ![GEN] = "waiting"]
                /\ ready' = S0.ready
                /\ pc' = [pc EXCEPT ![GEN] = "put"]
                /\ heldTick' = tick
                /\ putWaits' = putWaits + 1
                /\ UNCHANGED <<queue, unfinished, produced, rem>>
           ELSE LET S1 == Wake(S0, ECHO) IN
                /\ queue' = Append(queue, tick)
                /\ unfinished' = unfinished + 1
                /\ produced' = Append(produced, tick)
                /\ status' = [S1.status EXCEPT ![GEN] = "sleeping"]
                /\ ready' = S1.ready
                /\ pc' = [pc EXCEPT ![GEN] = "sleep"]
                /\ rem' = [rem EXCEPT ![GEN] = TICK_PERIOD]
                /\ heldTick' = -1
                /\ putWaits' = putWaits
    /\ made' = IF pc[GEN] = "put" THEN made ELSE Append(made, now)
    /\ owed' = owed \ {GEN}
    /\ UNCHANGED <<now, cancelReq, dropped, rendered, screen, clearTask, keyTime,
                   fires, fireTime, sinkLog, atShutdown, atEchoCancel, loopState,
                   quitTime, joined, events, lastKey, wvars, kvars>>

\* timer_echo resumed at its start or in get.  Queue.get suspends only while
\* the queue is empty, so one step takes, acknowledges (task_done) and renders
\* every tick that is queued, in order, and then suspends in get.  The first
\* take wakes a producer suspended in put; the acknowledgement that brings the
\* unfinished count to zero wakes main if it waits in join.
EchoRun(i) ==
    /\ i \in DOMAIN ready /\ ready[i] = ECHO /\ ~cancelReq[ECHO]
    /\ LET S0 == [Sched EXCEPT !.ready = RemoveAt(ready, i)]
           S1 == IF queue # <<>> /\ pc[GEN] = "put" THEN Wake(S0, GEN) ELSE S0
           S2 == IF queue # <<>> THEN TaskDone(S1, unfinished - Len(queue)) ELSE S1
       IN  /\ status' = [S2.status EXCEPT ![ECHO] = "waiting"]
           /\ ready' = S2.ready
    /\ pc' = [pc EXCEPT ![ECHO] = "get"]
    /\ rendered' = rendered \o MapStrftime(GetAll(queue))
    /\ screen' = IF queue = <<>> THEN screen
                 ELSE curses_print(screen, TIMER_Y_COR,
                                   <<"Current Time = {}",
                                     strftime(GetAll(queue)[Len(queue)])>>)
    /\ unfinished' = unfinished - Len(queue)
    /\ queue' = <<>>
    /\ events' = events \o [j \in 1..Len(queue) |-> <<"timer_echo", "print", TIMER_Y_COR>>]
    /\ owed' = owed \ {ECHO}
    /\ UNCHANGED <<now, rem, cancelReq, heldTick, produced, dropped, clearTask,
                   keyTime, fires, fireTime, sinkLog, atShutdown, atEchoCancel,
                   loopState,
                   quitTime, joined, made, putWaits, lastKey, wvars, kvars>>

\* --------------------------------------------------------- the reset timer
\* clear_key started: it suspends in asyncio.sleep(countdown_seconds).
ClearStart(i, n) ==
    /\ i \in DOMAIN ready /\ ready[i] = Clear(n) /\ ~cancelReq[Clear(n)] /\ pc[Clear(n)] = "start"
    /\ status' = [status EXCEPT ![Clear(n)] = "sleeping"]
    /\ ready' = RemoveAt(ready, i)
    /\ pc' = [pc EXCEPT ![Clear(n)] = "sleep"]
    /\ rem' = [rem EXCEPT ![Clear(n)] = COUNTDOWN]
    /\ owed' = owed \ {Clear(n)}
    /\ UNCHANGED <<now, cancelReq, queue, unfinished, heldTick, produced, dropped,
                   rendered, screen, clearTask, keyTime, fires, fireTime, sinkLog,
                   atShutdown, atEchoCancel, loopState,
                   quitTime, joined, made, putWaits, events, lastKey, wvars, kvars>>

\* clear_key woken from its sleep: it writes the message and returns.
ClearFire(i, n) ==
    /\ i \in DOMAIN ready /\ ready[i] = Clear(n) /\ ~cancelReq[Clear(n)] /\ pc[Clear(n)] = "sleep"
    /\ status' = [status EXCEPT ![Clear(n)] = "done"]
    /\ ready' = RemoveAt(ready, i)
    /\ screen' = curses_print(screen, KEYCODE_Y_COR, NoKeyMessage)
    /\ fires' = [fires EXCEPT ![n] = @ + 1]
    /\ fireTime' = [fireTime EXCEPT ![n] = now]
    /\ events' = Append(events, <<"clear_key", "print", KEYCODE_Y_COR>>)
    /\ owed' = owed \ {Clear(n)}
    /\ UNCHANGED <<now, pc, rem, cancelReq, queue, unfinished, heldTick, produced,
                   dropped, rendered, clearTask, keyTime, sinkLog, atShutdown,
                   atEchoCancel, loopState,
                   quitTime, joined, made, putWaits, lastKey, wvars, kvars>>

\* ------------------------------------------------------------------- time
\* The timer of a sleep has run out: the sleeping task's wakeup is scheduled.
\* The loop takes its timers in the order of their deadlines.
TimerDue(t) ==
    /\ status[t] = "sleeping" /\ rem[t] <= 0
    /\ \A u \in TaskIds : status[u] = "sleeping" => rem[u] >= rem[t]
    /\ status' = [status EXCEPT ![t] = "ready"]
    /\ ready' = Append(ready, t)
    /\ rem' = [rem EXCEPT ![t] = 0]
    /\ UNCHANGED <<now, pc, cancelReq, queue, unfinished, heldTick, produced,
                   dropped, rendered, screen, clearTask, keyTime, fires, fireTime,
                   sinkLog, atShutdown, atEchoCancel, loopState,
                   quitTime, joined, made, putWaits, events, lastKey, owed, wvars, kvars>>

\* One second passes, up to the bound `limit`.
Tick(limit) ==
    /\ loopState # "closed"
    /\ now < limit
    /\ now' = now + 1
    /\ rem' = Elapse(status, rem, 1)
    /\ UNCHANGED <<status, pc, cancelReq, ready, queue, unfinished, heldTick,
                   produced, dropped, rendered, screen, clearTask, keyTime, fires,
                   fireTime, sinkLog, atShutdown, atEchoCancel, loopState,
                   quitTime, joined, made, putWaits, events, lastKey, owed, wvars, kvars>>

\* The loop is idle: nothing is scheduled and no timer has run out.
LoopIdle == ready = <<>> /\ \A t \in TaskIds : ~(status[t] = "sleeping" /\ rem[t] <= 0)

\* ------------------------------------------------------------ asyncio.run
RECURSIVE CancelAll(_, _)
CancelAll(S, ts) ==
    IF ts = {} THEN S
    ELSE LET t == CHOOSE x \in ts : TRUE IN CancelAll(CancelTask(S, t), ts \ {t})

\* asyncio.run, once the main task has ended: every task that is left is
\* cancelled and the loop runs until all of them have ended.
RunnerCancelAll ==
    /\ loopState = "running" /\ Finished(status[MAIN])
    /\ LET S1 == CancelAll(Sched, TaskIds \ {MAIN}) IN
       /\ status' = S1.status /\ cancelReq' = S1.cancelReq /\ ready' = S1.ready
    /\ loopState' = "closing"
    /\ UNCHANGED <<now, pc, rem, queue, unfinished, heldTick, produced, dropped,
                   rendered, screen, clearTask, keyTime, fires, fireTime, sinkLog,
                   atShutdown, atEchoCancel,
                   quitTime, joined, made, putWaits, events, lastKey, owed, wvars, kvars>>

\* asyncio.run closes the loop: the program has ended.
LoopClose ==
    /\ loopState = "closing"
    /\ \A t \in TaskIds : status[t] = "none" \/ Finished(status[t])
    /\ loopState' = "closed"
    /\ UNCHANGED <<now, status, pc, rem, cancelReq, ready, queue, unfinished,
                   heldTick, produced, dropped, rendered, screen, clearTask,
                   keyTime, fires, fireTime, sinkLog, atShutdown, atEchoCancel,
                   quitTime, joined, made, putWaits, events, lastKey, owed, wvars, kvars>>

\* --------------------------------------------------------------- faults
\* The main task is resumed and an exception leaves it: a call it makes raises
\* (getch, addstr), or a cancellation from outside (an interrupt) is delivered
\* at the suspension point.  main_wrapper, main, echo_key and read_key hold no
\* try or finally, so nothing more of them runs.
MainFault(i) ==
    /\ i \in DOMAIN ready /\ ready[i] = MAIN /\ pc[MAIN] \in {"poll", "join"}
    /\ status' = [status EXCEPT ![MAIN] = "faulted"]
    /\ ready' = RemoveAt(ready, i)
    /\ UNCHANGED <<now, pc, rem, cancelReq, queue, unfinished, heldTick, produced,
                   dropped, rendered, screen, clearTask, keyTime, fires, fireTime,
                   sinkLog, atShutdown, atEchoCancel, loopState, quitTime, joined,
                   made, putWaits, events, lastKey, owed, wvars, kvars>>

\* ------------------------------------------------------------- scheduling
\* The wakeup at place i of the ready queue runs.
Run(i) ==
    \/ MainStart(i)
    \/ \E b \in SubTick : MainPollNone(i, b)
    \/ \E b \in SubTick, k \in Keys : MainKey(i, k, b)
    \/ \E b \in SubTick : MainQuit(i, b)
    \/ MainJoined(i)
    \/ GenRun(i)
    \/ EchoRun(i)
    \/ \E n \in 1..MaxKeys : ClearStart(i, n)
    \/ \E n \in 1..MaxKeys : ClearFire(i, n)
    \/ \E t \in TaskIds : TaskCancelled(i, t)

\* asyncio's loop: the scheduled wakeups run first in, first out; a timer that
\* has run out has its wakeup scheduled; time passes only while the loop is
\* idle (or, inside a step of main, while getch waits).
Next ==
    \/ Run(1)
    \/ \E t \in TaskIds : TimerDue(t)
    \/ LoopIdle /\ Tick(MaxTime)
    \/ RunnerCancelAll
    \/ LoopClose

Spec == Init /\ [][Next]_vars

\* The loop does not stop while it has something to do other than to let time
\* pass: a scheduled wakeup to run, a timer that ran out to notice, or the
\* closing down of asyncio.run.
Fairness ==
    WF_vars(Run(1) \/ (\E t \in TaskIds : TimerDue(t)) \/ RunnerCancelAll \/ LoopClose)

SpecFair == Spec /\ Fairness

\* The program with faults of the main task.
NextFault ==
    \/ Next
    \/ MainFault(1)

SpecFault == Init /\ [][NextFault]_vars

\* The clock pipeline with a slow consumer and no key pressed: main polls and
\* timer_generator runs on time, as under Next, while the scheduled wakeup of
\* timer_echo may be passed over for any number of seconds.
OnlyEchoScheduled ==
    /\ \A i \in DOMAIN ready : ready[i] = ECHO
    /\ \A t \in TaskIds : ~(status[t] = "sleeping" /\ rem[t] <= 0)

NextFill ==
    \/ \E i \in DOMAIN ready : MainStart(i)
    \/ \E i \in DOMAIN ready : MainPollNone(i, 0)
    \/ \E i \in DOMAIN ready : GenRun(i)
    \/ \E i \in DOMAIN ready : EchoRun(i)
    \/ \E t \in TaskIds : TimerDue(t)
    \/ OnlyEchoScheduled /\ Tick(MaxFillTime)

SpecFill == Init /\ [][NextFill]_vars


\* ------------------------------------------------- one call of read_key
\* read_key followed poll by poll, with an input that has no key for the
\* first rkEmpty polls and the key rkKey from then on.
InitReadKeyCall ==
    /\ InitReadkey
    /\ WaiterIdle
    /\ rkEmpty \in 0..MaxEmpty
    /\ rkKey \in Keys
    /\ rkPc = "call"
    /\ rkPolls = 0
    /\ rkSleeps = 0
    /\ rkResult = ERR

\* stdscr.getch() on the poll after `polls` earlier ones.
getch(polls) == IF polls < rkEmpty THEN ERR ELSE rkKey

\* The call: k = curses.ERR, so the loop is entered and the coroutine
\* suspends in asyncio.sleep(0.01) before it has polled.
RkCall ==
    /\ rkPc = "call"
    /\ rkPc' = "sleeping"
    /\ rkSleeps' = rkSleeps + 1
    /\ UNCHANGED <<rkEmpty, rkKey, rkPolls, rkResult, rvars, wvars>>

\* Woken from the sleep, getch finds no key: the loop goes round and the
\* coroutine suspends again.
RkPollNone ==
    /\ rkPc = "sleeping"
    /\ getch(rkPolls) = ERR
    /\ rkPolls' = rkPolls + 1
    /\ rkSleeps' = rkSleeps + 1
    /\ UNCHANGED <<rkEmpty, rkKey, rkPc, rkResult, rvars, wvars>>

\* Woken from the sleep, getch returns a key: the loop ends and the key is
\* returned.
RkPollKey ==
    /\ rkPc = "sleeping"
    /\ getch(rkPolls) # ERR
    /\ rkPolls' = rkPolls + 1
    /\ rkResult' = getch(rkPolls)
    /\ rkPc' = "returned"
    /\ UNCHANGED <<rkEmpty, rkKey, rkSleeps, rvars, wvars>>

NextReadKey == RkCall \/ RkPollNone \/ RkPollKey

SpecReadKey == InitReadKeyCall /\ [][NextReadKey]_vars

\* ------------------------------------------------- asyncio-example.py
\* The sleep times stand for the values random.uniform returns; they and the
\* timeout are the inputs of the run.
Durations == {2 * k : k \in 1..MaxDur}

Timeouts == {ShortTimeout, TIMEOUT}

InitWaiter ==
    /\ InitReadkey
    /\ ReadKeyIdle
    /\ wdur \in [Tasks -> Durations]
    /\ wtimeout \in Timeouts
    /\ wnow = 0
    /\ wstate = [n \in Tasks |-> "new"]
    /\ wtodo = {}
    /\ wdone = <<>>
    /\ wtimer = FALSE
    /\ wleft = 0
    /\ wyield = <<>>
    /\ wpc = "start"

SleepOverAnytime(n, t) == TRUE

\* asyncio.sleep(interval) of task n, begun at time 0, is over at time t.
SleepOver(n, t) == wdur[n] <= t

TimeoutNever == FALSE

\* The timeout handle was scheduled before any task began to sleep: at equal
\* deadlines it comes first.
TimeoutDue == wtimer /\ wtimeout <= wnow

RECURSIVE Nones(_)
Nones(k) == IF k = 0 THEN <<>> ELSE <<NONE>> \o Nones(k - 1)

\* The for loop of main from the point where done.get() returns: it takes
\* queued items without suspending until the queue is empty, a None raises
\* TimeoutError, or all the coroutines have been awaited.
RECURSIVE ForLoop(_, _, _)
ForLoop(done, yielded, left) ==
    IF left = 0 THEN [done |-> done, yielded |-> yielded, left |-> left, pc |-> "finished"]
    ELSE IF done = <<>> THEN [done |-> done, yielded |-> yielded, left |-> left, pc |-> "waiting"]
    ELSE IF Head(done) = NONE
         THEN [done |-> Tail(done), yielded |-> yielded, left |-> left, pc |-> "timeout"]
    ELSE ForLoop(Tail(done), Append(yielded, Head(done)), left - 1)

\* main up to its first suspension: the tasks are created and scheduled, the
\* timeout handle is set, and the first done.get() finds the queue empty.
WMainStart ==
    /\ wpc = "start"
    /\ wtodo' = Tasks
    /\ wtimer' = TRUE
    /\ wleft' = N_TASKS
    /\ wpc' = "waiting"
    /\ UNCHANGED <<wdur, wtimeout, wnow, wstate, wdone, wyield, rvars, kvars>>

\* The first step of every task: each prints its start line and sleeps.  They
\* run in the order of as_completed's set, which leaves no trace in the state.
WTasksStart ==
    /\ wpc = "waiting"
    /\ \A n \in Tasks : wstate[n] = "new"
    /\ wstate' = [n \in Tasks |-> "sleeping"]
    /\ UNCHANGED <<wdur, wtimeout, wnow, wtodo, wdone, wtimer, wleft, wyield, wpc, rvars, kvars>>

\* Task n's sleep is over: it returns n, and _on_completion moves it from todo
\* to the done queue, cancelling the timeout handle with the last one.
WComplete(n) ==
    /\ wstate[n] = "sleeping"
    /\ SleepOver(n, wnow)
    /\ ~TimeoutDue
    /\ wstate' = [wstate EXCEPT ![n] = "done"]
    /\ IF n \in wtodo
       THEN /\ wtodo' = wtodo \ {n}
            /\ wdone' = Append(wdone, n)
            /\ wtimer' = (wtimer /\ wtodo' # {})
       ELSE UNCHANGED <<wtodo, wdone, wtimer>>
    /\ UNCHANGED <<wdur, wtimeout, wnow, wleft, wyield, wpc, rvars, kvars>>

\* _on_timeout: one None for every task still in todo, and todo is emptied.
WTimeout ==
    /\ TimeoutDue
    /\ wdone' = wdone \o Nones(Cardinality(wtodo))
    /\ wtodo' = {}
    /\ wtimer' = FALSE
    /\ UNCHANGED <<wdur, wtimeout, wnow, wstate, wleft, wyield, wpc, rvars, kvars>>

\* main resumes in done.get() and runs the for loop on.
WMainResume ==
    /\ wpc = "waiting"
    /\ wdone # <<>>
    /\ LET r == ForLoop(wdone, wyield, wleft) IN
       /\ wdone' = r.done
       /\ wyield' = r.yielded
       /\ wleft' = r.left
       /\ wpc' = r.pc
    /\ UNCHANGED <<wdur, wtimeout, wnow, wstate, wtodo, wtimer, rvars, kvars>>

\* The loop has nothing to run and sleeps until the next deadline.
WDeadlines ==
    {wdur[n] : n \in {m \in Tasks : wstate[m] = "sleeping"}}
        \cup (IF wtimer THEN {wtimeout} ELSE {})

WAdvance ==
    /\ wpc = "waiting"
    /\ wdone = <<>>
    /\ \A n \in Tasks : wstate[n] # "new"
    /\ WDeadlines # {}
    /\ \A d \in WDeadlines : d > wnow
    /\ wnow' = CHOOSE d \in WDeadlines : \A e \in WDeadlines : d <= e
    /\ UNCHANGED <<wdur, wtimeout, wstate, wtodo, wdone, wtimer, wleft, wyield, wpc, rvars, kvars>>

\* How main of the example ended: the for loop ran out and main returned, or
\* `await task` raised TimeoutError, which main does not catch, so that
\* run_until_complete raises it and loop.close() is not reached.
MainOutcome ==
    IF wpc = "finished" THEN "returned"
    ELSE IF wpc = "timeout" THEN "TimeoutError"
    ELSE "running"

NextWaiter ==
    \/ WMainStart
    \/ WTasksStart
    \/ \E n \in Tasks : WComplete(n)
    \/ WTimeout
    \/ WMainResume
    \/ WAdvance

SpecWaiter == InitWaiter /\ [][NextWaiter]_vars

SpecWaiterFair ==
    /\ SpecWaiter
    /\ WF_vars(WMainStart) /\ WF_vars(WTasksStart) /\ WF_vars(WTimeout)
    /\ WF_vars(WMainResume) /\ WF_vars(WAdvance)
    /\ \A n \in Tasks : WF_vars(WComplete(n))

\* ------------------------------------------------------------- properties
IsPrefix(s, t) == Len(s) <= Len(t) /\ s = SubSeq(t, 1, Len(s))

\* The time of the event that follows the n-th key: the next key, or the
\* quit key; -1 while there is none.
NextEventTime(n) == IF n < clearTask THEN keyTime[n + 1] ELSE quitTime

\* C1: debounce.  A reset timer never writes its message twice; one armed by a
\* key that is followed by another key (or the quit key) less than COUNTDOWN
\* seconds later never writes it; one armed by a key that is followed by no
\* key and no quit for more than COUNTDOWN seconds has written it exactly once.
C1_Debounce ==
    \A n \in 1..clearTask :
        LET e == NextEventTime(n) IN
        /\ fires[n] <= 1
        /\ (e # -1 /\ e < keyTime[n] + COUNTDOWN) => fires[n] = 0
        /\ (e # -1 /\ e > keyTime[n] + COUNTDOWN) => fires[n] = 1

\* The reset timers that are pending and not cancel-requested.
LiveTimers ==
    {n \in 1..MaxKeys : status[Clear(n)] \in {"ready", "sleeping"} /\ ~cancelReq[Clear(n)]}

\* C2: at most one reset timer is live (pending and not cancel-requested).
C2_OneLiveTimer == Cardinality(LiveTimers) <= 1

C2_Witness ==
    /\ clearTask = 2
    /\ status[Clear(1)] = "ready" /\ cancelReq[Clear(1)]
    /\ LiveTimers = {2}

\* C3: once the quit key has been read, main ends.
C3_QuitTerminates == (quitTime # -1) ~> (status[MAIN] = "done")

C3_Witness == joined = "waited" /\ status[MAIN] = "done"

\* The calls that restore the terminal (each ends in endwin).
Teardowns == {"wrapper_endwin", "curses_shutdown"}

TeardownCount == Cardinality({j \in DOMAIN sinkLog : sinkLog[j] \in Teardowns})

\* C4: on a run ended by the quit key the terminal has been restored exactly
\* once, the teardown of curses.wrapper and curses_shutdown both counted.
C4_ShutdownOnce == status[MAIN] = "done" => TeardownCount = 1

\* C5: when a fault ends main, the program ends with the terminal restored:
\* the last call made on the terminal is a teardown.
C5_TeardownOnFault ==
    (status[MAIN] = "faulted" /\ loopState = "closed")
        => (sinkLog # <<>> /\ sinkLog[Len(sinkLog)] \in Teardowns)

\* C6: when main calls curses_shutdown, every task it started has finished.
C6_NoTaskOutlivesShutdown == status[MAIN] = "done" => atShutdown = {}

\* C7: the time strings rendered are those of a prefix of the ticks put, in
\* the order they were put.
C7_FifoPrefix == IsPrefix(rendered, MapStrftime(produced))

C7_Witness == Len(rendered) >= 3 /\ Len(queue) >= 2

\* C8: back-pressure.  The queue never holds more than QUEUE_MAXSIZE ticks; the
\* producer is suspended in put only while the queue is full and resumed only
\* after a slot was freed; and every tick the (uncancelled) producer took from
\* the clock is enqueued, or held by the suspended producer to be enqueued.
C8_BackPressure ==
    /\ Len(queue) <= QUEUE_MAXSIZE
    /\ status[GEN] = "waiting" => (pc[GEN] = "put" /\ Len(queue) = QUEUE_MAXSIZE)
    /\ (status[GEN] = "ready" /\ pc[GEN] = "put") => Len(queue) < QUEUE_MAXSIZE
    /\ ~cancelReq[GEN] =>
           made = produced \o (IF pc[GEN] = "put" THEN <<heldTick>> ELSE <<>>)

C8_Witness ==
    /\ putWaits >= 1 /\ pc[GEN] = "sleep"
    /\ Len(produced) > QUEUE_MAXSIZE /\ made = produced

\* C9: when main cancels the consumer, every tick ever enqueued has been
\* taken, acknowledged and rendered, and the producer was cancelled before
\* the wait in join began.
C9_DrainThenCancel ==
    /\ pc[MAIN] = "join" => cancelReq[GEN]
    /\ atEchoCancel # <<>> =>
           LET a == atEchoCancel[1] IN
           /\ a.queue = <<>> /\ a.unfinished = 0
           /\ a.rendered = MapStrftime(a.produced)
           /\ a.genCancelled

C9_Witness ==
    /\ atEchoCancel # <<>> /\ joined = "waited"
    /\ Len(atEchoCancel[1].produced) >= 1


\* The largest sleep time of the run.
MaxDuration == CHOOSE d \in Durations :
                   /\ \E n \in Tasks : wdur[n] = d
                   /\ \A n \in Tasks : wdur[n] <= d

NoDuplicates(s) == \A i, j \in DOMAIN s : i # j => s[i] # s[j]

\* The run of the example in the specification: sleep times 0.1, 0.5, 0.3,
\* 0.2, 0.4 seconds and a timeout of 10 seconds.
ExampleRun == wdur = [n \in Tasks |-> <<2, 10, 6, 4, 8>>[n + 1]] /\ wtimeout = TIMEOUT

\* C10: with a timeout greater than every sleep time the for loop never times
\* out and never yields a task twice, yields tasks in non-decreasing order of
\* completion time, and ends having yielded each of the N_TASKS results; the
\* example run yields 0, 3, 2, 4, 1.
C10_FirstCompleted ==
    /\ [](wtimeout > MaxDuration =>
            /\ wpc # "timeout"
            /\ NoDuplicates(wyield)
            /\ \A i \in DOMAIN wyield : wyield[i] \in Tasks
            /\ \A i, j \in DOMAIN wyield : i < j => wdur[wyield[i]] <= wdur[wyield[j]]
            /\ wpc = "finished" => {wyield[i] : i \in DOMAIN wyield} = Tasks
            /\ (ExampleRun /\ wpc = "finished") => wyield = <<0, 3, 2, 4, 1>>)
    /\ (wtimeout > MaxDuration /\ wpc = "start") ~> (wpc = "finished")

C10_Witness == ExampleRun /\ wpc = "finished" /\ wyield = <<0, 3, 2, 4, 1>>

\* The tasks whose sleep is over before the timeout.
BeforeTimeout == {n \in Tasks : wdur[n] < wtimeout}

\* The example in the specification with the timeout of 0.15 seconds.
ShortExampleRun == wdur = [n \in Tasks |-> <<2, 10, 6, 4, 8>>[n + 1]] /\ wtimeout = 3

\* C11: with a timeout not greater than every sleep time, only tasks that
\* complete before the timeout are yielded, each once and in completion order;
\* the wait ends by the timeout, and then exactly those tasks have been
\* yielded; the example with timeout 0.15 s yields task 0 alone.
C11_ShortTimeout ==
    /\ [](wtimeout <= MaxDuration =>
            /\ wpc # "finished"
            /\ NoDuplicates(wyield)
            /\ \A i \in DOMAIN wyield : wyield[i] \in BeforeTimeout
            /\ \A i, j \in DOMAIN wyield : i < j => wdur[wyield[i]] <= wdur[wyield[j]]
            /\ wpc = "timeout" => {wyield[i] : i \in DOMAIN wyield} = BeforeTimeout
            /\ (ShortExampleRun /\ wpc = "timeout") => wyield = <<0>>)
    /\ (wtimeout <= MaxDuration /\ wpc = "start") ~> (wpc = "timeout")
    /\ [][wpc = "timeout" => wyield' = wyield]_vars

C11_Witness == ShortExampleRun /\ wpc = "timeout" /\ wyield = <<0>>


C13_PollCount ==
    rkPc = "returned" =>
        /\ rkPolls = rkEmpty + 1
        /\ rkSleeps = rkEmpty
        /\ rkResult = rkKey


KeyPrint == <<"echo_key", "print", KEYCODE_Y_COR>>

\* What the events say of echo_key's loop: a key message is followed at once
\* by the arming of a timer, no timer is armed otherwise, and after the quit
\* key echo_key neither writes a key message nor arms a timer nor reads a key.
KeyEventsInOrder ==
    /\ \A i \in DOMAIN events :
           /\ events[i] = KeyPrint =>
                  i < Len(events) /\ events[i + 1][1] = "echo_key" /\ events[i + 1][2] = "arm"
           /\ events[i][2] = "arm" => i > 1 /\ events[i - 1] = KeyPrint
    /\ \A i, j \in DOMAIN events :
           (i < j /\ events[i][2] = "quit") =>
               events[j] # KeyPrint /\ events[j][2] \notin {"arm", "quit"}
    /\ quitTime # -1 => pc[MAIN] \in {"join", "exit"}

\* The step in which read_key returns a key other than the quit key.
KeyHandled ==
    clearTask' # clearTask =>
        /\ lastKey' \notin {ERR, KEY_QUIT}
        /\ screen'[KEYCODE_Y_COR] = <<"Last key pressed: {}", lastKey'>>
        /\ clearTask' = clearTask + 1
        /\ events' = events \o <<KeyPrint, <<"echo_key", "arm", clearTask'>>>>
        /\ status'[Clear(clearTask')] = "ready"
        /\ status'[MAIN] = "sleeping" /\ pc'[MAIN] = "poll"

\* The step in which read_key returns the quit key.
QuitHandled ==
    quitTime' # quitTime =>
        /\ lastKey' = KEY_QUIT
        /\ clearTask' = clearTask
        /\ \A n \in 1..MaxKeys : status'[Clear(n)] = "none" <=> status[Clear(n)] = "none"
        /\ screen'[KEYCODE_Y_COR] = <<>>
        /\ pc'[MAIN] \in {"join", "exit"}

\* C14: for every key other than 27 that read_key returns, echo_key sets the
\* key line to that key and then arms a fresh reset timer before it polls
\* again; on 27 it leaves the loop for the draining without a key message and
\* without a timer, and polls no further key.
C14_RunningLoop ==
    /\ []KeyEventsInOrder
    /\ [][KeyHandled /\ QuitHandled]_vars

C14_Witness == clearTask >= 1 /\ quitTime # -1 /\ lastKey = KEY_QUIT


\* The rows a display event writes: the row printed, every row for a clear.
Region(e) ==
    IF e[2] = "print" THEN {e[3]}
    ELSE IF e[2] = "clear" THEN DOMAIN screen
    ELSE {}

Writers == {"timer_echo", "echo_key", "clear_key"}

\* C15: the clock writer, the key-event writer and the reset-timer writer
\* write to pairwise disjoint regions: no row is written by two of them.
C15_DisjointRegions ==
    \A i, j \in DOMAIN events :
        (events[i][1] \in Writers /\ events[j][1] \in Writers /\ events[i][1] # events[j][1])
            => Region(events[i]) \cap Region(events[j]) = {}


\* C16: read_key suspends before it returns, also when a key is pending, so
\* every task that was ready when echo_key went back to read_key after a key
\* runs before the next key is handled; until they have run, one of them,
\* not main, is at the head of the loop's queue.
C16_PollerYields ==
    /\ [](owed # {} => ready # <<>> /\ Head(ready) \in owed)
    /\ [][(clearTask' # clearTask \/ quitTime' # quitTime) => owed = {}]_vars

\* Two keys handled within the same tick, and the timer task created for the
\* first ran its first step in between.
C16_Witness ==
    /\ clearTask = 2 /\ keyTime[1] = keyTime[2]
    /\ pc[Clear(1)] = "sleep" /\ cancelReq[Clear(1)]


\* C17: once the quit key has been read no reset timer fires.  Every clear_key
\* task is finished or cancel-requested from the quit step on, no event of
\* clear_key follows the quit event, the count of messages written no longer
\* changes and the key line never shows the message.
C17_NoFireAfterQuit ==
    /\ [](quitTime # -1 =>
            /\ \A n \in 1..clearTask :
                   Finished(status[Clear(n)]) \/ cancelReq[Clear(n)]
            /\ screen[KEYCODE_Y_COR] # NoKeyMessage)
    /\ [](\A i, j \in DOMAIN events :
              (i < j /\ events[i][2] = "quit") => events[j][1] # "clear_key")
    /\ [][quitTime # -1 => fires' = fires]_vars

\* The quit key was read while a reset timer was pending, and that timer has
\* ended cancelled without writing.
C17_Witness ==
    /\ quitTime # -1 /\ clearTask >= 1
    /\ quitTime < keyTime[clearTask] + COUNTDOWN
    /\ status[Clear(clearTask)] = "cancelled" /\ pc[Clear(clearTask)] = "sleep"
    /\ fires[clearTask] = 0


\* C18: after main has called timer_generator_task.cancel() the producer is
\* finished or cancel-requested, takes no further tick from the clock and
\* enqueues none, and the unfinished count only decreases.
C18_ProducerStops ==
    /\ [](quitTime # -1 => Finished(status[GEN]) \/ cancelReq[GEN])
    /\ [][quitTime # -1 =>
             /\ produced' = produced
             /\ made' = made
             /\ Len(queue') <= Len(queue)
             /\ unfinished' <= unfinished]_vars

\* main waited in join after the cancel, the producer has ended cancelled and
\* the count has come down to zero.
C18_Witness ==
    /\ joined = "waited" /\ status[GEN] = "cancelled"
    /\ unfinished = 0 /\ Len(produced) >= 1 /\ status[MAIN] = "done"


ShutdownDone == \E i \in DOMAIN events : events[i][2] = "shutdown"

\* C19: nothing is written to the display after curses_shutdown: no print or
\* clear event follows the shutdown event, and from then on the screen and
\* the rendered time strings no longer change.
C19_NoWriteAfterShutdown ==
    /\ [](\A i, j \in DOMAIN events :
              (i < j /\ events[i][2] = "shutdown") => events[j][2] \notin {"print", "clear"})
    /\ [][ShutdownDone => screen' = screen /\ rendered' = rendered /\ events' = events]_vars

\* curses_shutdown was called after a wait in join, with the consumer (which
\* had rendered ticks) still pending; it has since ended cancelled.
C19_Witness ==
    /\ ShutdownDone /\ joined = "waited" /\ ECHO \in atShutdown
    /\ status[ECHO] = "cancelled" /\ Len(rendered) >= 2


\* C20: under the loop's scheduling the queue never holds more than one tick:
\* the producer puts only into an empty queue, is never suspended in put and
\* never drops a tick, and the queue is far from its capacity.
C20_QueueAtMostOne ==
    /\ [](/\ Len(queue) <= 1
          /\ Len(queue) < QUEUE_MAXSIZE
          /\ putWaits = 0 /\ pc[GEN] # "put" /\ heldTick = -1 /\ dropped = <<>>)
    /\ [][Len(produced') > Len(produced) => queue = <<>>]_vars

\* Several ticks have been produced and each has been taken and rendered.
C20_Witness == Len(produced) >= 3 /\ Len(rendered) >= 3 /\ queue = <<>>

====
